---- MODULE Spec2Model ----
(***************************************************************************)
(* Model of signposting/linkheader.py: selection of FAIR Signposting links *)
(* from HTTP Link headers.                                                 *)
(*                                                                         *)
(* Python str values are TLA+ strings, handled character by character      *)
(* (Len, SubSeq and \o on strings).  Optional[T] is a sequence of length   *)
(* at most one: None is <<>> and a present value x is <<x>>.               *)
(***************************************************************************)
EXTENDS Naturals, Sequences, FiniteSets

(***************************************************************************)
(* str methods used by the code and by the two libraries it calls.         *)
(* Positions are 1-based; 0 stands for Python's "not found" (-1).          *)
(***************************************************************************)
At(s, i) == SubSeq(s, i, i)

\* s[i:] for a 1-based i
From(s, i) == SubSeq(s, i, Len(s))

\* s[:n]: at most the first n characters
Prefix(s, n) == SubSeq(s, 1, IF n < Len(s) THEN n ELSE Len(s))

\* str.find(c, start): the first position >= start holding character c
RECURSIVE find(_, _, _)
find(s, c, start) ==
    IF start > Len(s) THEN 0
    ELSE IF At(s, start) = c THEN start
    ELSE find(s, c, start + 1)

\* str.rfind(c), searching down from position last
RECURSIVE rfind_from(_, _, _)
rfind_from(s, c, last) ==
    IF last < 1 THEN 0
    ELSE IF At(s, last) = c THEN last
    ELSE rfind_from(s, c, last - 1)

rfind(s, c) == rfind_from(s, c, Len(s))

\* c in s
contains(s, c) == find(s, c, 1) # 0

ASCII_UPPER == "ABCDEFGHIJKLMNOPQRSTUVWXYZ"
ASCII_LOWER == "abcdefghijklmnopqrstuvwxyz"
DIGITS == "0123456789"

lower_table ==
    [c \in {At(ASCII_UPPER, i) : i \in 1..Len(ASCII_UPPER)} |->
       At(ASCII_LOWER, find(ASCII_UPPER, c, 1))]

lower_char(c) == IF c \in DOMAIN lower_table THEN lower_table[c] ELSE c

\* str.lower()
RECURSIVE lower(_)
lower(s) == IF s = "" THEN "" ELSE lower_char(At(s, 1)) \o lower(From(s, 2))

\* str.split(sep) for a one-character sep: empty pieces are kept
RECURSIVE split(_, _)
split(s, sep) ==
    LET i == find(s, sep, 1)
    IN  IF i = 0 THEN <<s>>
        ELSE <<SubSeq(s, 1, i - 1)>> \o split(From(s, i + 1), sep)

\* str.split(sep, 1): at most one cut
split1(s, sep) ==
    LET i == find(s, sep, 1)
    IN  IF i = 0 THEN <<s>> ELSE <<SubSeq(s, 1, i - 1), From(s, i + 1)>>

\* str.lstrip(" ")
RECURSIVE lstrip(_)
lstrip(s) == IF s # "" /\ At(s, 1) = " " THEN lstrip(From(s, 2)) ELSE s

\* str.split() without argument: cut at runs of blanks, no empty pieces
RECURSIVE split_ws(_)
split_ws(s) ==
    LET t == lstrip(s)
        i == find(t, " ", 1)
    IN  IF t = "" THEN <<>>
        ELSE IF i = 0 THEN <<t>>
        ELSE <<SubSeq(t, 1, i - 1)>> \o split_ws(From(t, i + 1))

\* sep.join(parts)
RECURSIVE join(_, _)
join(sep, parts) ==
    IF parts = <<>> THEN ""
    ELSE IF Len(parts) = 1 THEN parts[1]
    ELSE parts[1] \o sep \o join(sep, Tail(parts))

(***************************************************************************)
(* urllib.parse, as far as urljoin reaches.  The strings of the model hold *)
(* no control characters, no brackets and no non-ASCII characters, so the  *)
(* stripping of C0 controls, the IPv6 checks and the NFKC check of the     *)
(* netloc never act.                                                       *)
(***************************************************************************)
uses_relative ==
    {"", "ftp", "http", "gopher", "nntp", "imap", "wais", "file", "https",
     "shttp", "mms", "prospero", "rtsp", "rtsps", "rtspu", "sftp", "svn",
     "svn+ssh", "ws", "wss"}

uses_netloc ==
    {"", "ftp", "http", "gopher", "nntp", "telnet", "imap", "wais", "file",
     "mms", "https", "shttp", "snews", "prospero", "rtsp", "rtsps", "rtspu",
     "rsync", "svn", "svn+ssh", "sftp", "nfs", "git", "git+ssh", "ws", "wss"}

uses_params ==
    {"", "ftp", "hdl", "prospero", "http", "imap", "https", "shttp", "rtsp",
     "rtsps", "rtspu", "sip", "sips", "mms", "sftp", "tel"}

scheme_chars == ASCII_LOWER \o ASCII_UPPER \o DIGITS \o "+-."

isalpha(c) == contains(ASCII_LOWER, c) \/ contains(ASCII_UPPER, c)

\* _splitnetloc(url, 2): the netloc ends at the first of "/?#" after the "//"
splitnetloc(url) ==
    LET ends  == {i \in 3..Len(url) : At(url, i) \in {"/", "?", "#"}}
        delim == IF ends = {} THEN Len(url) + 1
                 ELSE CHOOSE i \in ends : \A j \in ends : i <= j
    IN  <<SubSeq(url, 3, delim - 1), From(url, delim)>>

\* urlsplit, last step: the query is cut off the path at the first "?"
urlsplit_query(scheme, netloc, url, fragment) ==
    IF contains(url, "?")
    THEN [scheme |-> scheme, netloc |-> netloc, path |-> split1(url, "?")[1],
          query |-> split1(url, "?")[2], fragment |-> fragment]
    ELSE [scheme |-> scheme, netloc |-> netloc, path |-> url,
          query |-> "", fragment |-> fragment]

\* urlsplit, third step: the fragment is cut off at the first "#"
urlsplit_fragment(scheme, netloc, url) ==
    IF contains(url, "#")
    THEN urlsplit_query(scheme, netloc, split1(url, "#")[1], split1(url, "#")[2])
    ELSE urlsplit_query(scheme, netloc, url, "")

\* urlsplit, second step: a netloc follows a leading "//"
urlsplit_netloc(scheme, url) ==
    IF Prefix(url, 2) = "//"
    THEN urlsplit_fragment(scheme, splitnetloc(url)[1], splitnetloc(url)[2])
    ELSE urlsplit_fragment(scheme, "", url)

\* urlsplit, first step: a scheme is what stands before the first ":", if it
\* starts with a letter and holds scheme_chars only; it is lower-cased
urlsplit_scheme(url, scheme0) ==
    LET i == find(url, ":", 1)
    IN  IF /\ i > 1
           /\ isalpha(At(url, 1))
           /\ \A k \in 1..(i - 1) : contains(scheme_chars, At(url, k))
        THEN urlsplit_netloc(lower(SubSeq(url, 1, i - 1)), From(url, i + 1))
        ELSE urlsplit_netloc(scheme0, url)

urlsplit(url, scheme0) == urlsplit_scheme(lstrip(url), scheme0)

\* _splitparams(url), returned as <<url, params>>
splitparams(url) ==
    LET i == IF contains(url, "/")
             THEN find(url, ";", rfind(url, "/"))
             ELSE find(url, ";", 1)
    IN  IF i = 0 THEN <<url, "">>
        ELSE <<SubSeq(url, 1, i - 1), From(url, i + 1)>>

\* urlparse, given what urlsplit returned
urlparse_params(r) ==
    IF r.scheme \in uses_params /\ contains(r.path, ";")
    THEN [scheme |-> r.scheme, netloc |-> r.netloc,
          path |-> splitparams(r.path)[1], params |-> splitparams(r.path)[2],
          query |-> r.query, fragment |-> r.fragment]
    ELSE [scheme |-> r.scheme, netloc |-> r.netloc, path |-> r.path,
          params |-> "", query |-> r.query, fragment |-> r.fragment]

urlparse(url, scheme0) == urlparse_params(urlsplit(url, scheme0))

\* urlunsplit, first step: "//" and the netloc are put before the path
urlunsplit_netloc(scheme, netloc, url) ==
    IF netloc # ""
       \/ (scheme # "" /\ scheme \in uses_netloc /\ Prefix(url, 2) # "//")
    THEN "//" \o netloc \o
         (IF url # "" /\ Prefix(url, 1) # "/" THEN "/" \o url ELSE url)
    ELSE url

\* urlunsplit, the later steps: scheme, query and fragment are added
urlunsplit_scheme(scheme, url) ==
    IF scheme # "" THEN scheme \o ":" \o url ELSE url

urlunsplit_query(url, query) ==
    IF query # "" THEN url \o "?" \o query ELSE url

urlunsplit_fragment(url, fragment) ==
    IF fragment # "" THEN url \o "#" \o fragment ELSE url

urlunsplit(scheme, netloc, url, query, fragment) ==
    urlunsplit_fragment(
        urlunsplit_query(
            urlunsplit_scheme(scheme, urlunsplit_netloc(scheme, netloc, url)),
            query),
        fragment)

urlunparse(scheme, netloc, url, params, query, fragment) ==
    urlunsplit(scheme, netloc,
               IF params # "" THEN url \o ";" \o params ELSE url,
               query, fragment)

\* segments[1:-1] = filter(None, segments[1:-1])
filter_middle(segments) ==
    IF Len(segments) <= 2 THEN segments
    ELSE <<Head(segments)>>
         \o SelectSeq(SubSeq(segments, 2, Len(segments) - 1),
                      LAMBDA seg : seg # "")
         \o <<segments[Len(segments)]>>

\* the loop over segments that builds resolved_path
RECURSIVE resolve_segments(_, _)
resolve_segments(segments, resolved_path) ==
    IF segments = <<>> THEN resolved_path
    ELSE resolve_segments(Tail(segments),
             IF Head(segments) = ".."
             THEN (IF resolved_path = <<>> THEN <<>>
                   ELSE SubSeq(resolved_path, 1, Len(resolved_path) - 1))
             ELSE IF Head(segments) = "." THEN resolved_path
             ELSE Append(resolved_path, Head(segments)))

\* base_parts: the base path cut at "/", without a last part that is no
\* directory
base_parts(parts) ==
    IF parts[Len(parts)] # "" THEN SubSeq(parts, 1, Len(parts) - 1) ELSE parts

\* the segments to resolve: those of an absolute path alone, else those of
\* the base path followed by those of the path
path_segments(bpath, path) ==
    IF Prefix(path, 1) = "/" THEN split(path, "/")
    ELSE filter_middle(base_parts(split(bpath, "/")) \o split(path, "/"))

\* resolved_path with '' appended when the last segment is "." or ".."
with_trailing_slash(segments, resolved_path) ==
    IF segments[Len(segments)] \in {".", ".."}
    THEN Append(resolved_path, "") ELSE resolved_path

\* path or '/'
or_slash(path) == IF path = "" THEN "/" ELSE path

\* '/'.join(resolved_path) or '/'
resolved_path_of(segments) ==
    or_slash(join("/", with_trailing_slash(segments,
                                           resolve_segments(segments, <<>>))))

\* urljoin, given the parsed base b and the parsed url u
urljoin_parsed(url, b, u) ==
    IF u.scheme # b.scheme \/ u.scheme \notin uses_relative THEN url
    ELSE IF u.scheme \in uses_netloc /\ u.netloc # ""
    THEN urlunparse(u.scheme, u.netloc, u.path, u.params, u.query, u.fragment)
    ELSE IF u.path = "" /\ u.params = ""
    THEN urlunparse(u.scheme,
                    IF u.scheme \in uses_netloc THEN b.netloc ELSE u.netloc,
                    b.path, b.params,
                    IF u.query = "" THEN b.query ELSE u.query,
                    u.fragment)
    ELSE urlunparse(u.scheme,
                    IF u.scheme \in uses_netloc THEN b.netloc ELSE u.netloc,
                    resolved_path_of(path_segments(b.path, u.path)),
                    u.params, u.query, u.fragment)

\* urljoin, given the parsed base b
urljoin_base(url, b) == urljoin_parsed(url, b, urlparse(url, b.scheme))

urljoin(base, url) ==
    IF base = "" THEN url
    ELSE IF url = "" THEN base
    ELSE urljoin_base(url, urlparse(base, ""))

(***************************************************************************)
(* httplink, the Link-header parser the code imports.  A Link holds its    *)
(* target, its attributes in order as <<key, value>> pairs, and rel: the   *)
(* lower-cased tokens of its rel attribute, cut at blanks.                 *)
(***************************************************************************)
None == <<>>

Range(f) == {f[i] : i \in DOMAIN f}

Link(target, attributes) ==
    [target |-> target,
     attributes |-> attributes,
     rel |-> UNION {{lower(tok) : tok \in Range(split_ws(attributes[i][2]))} :
                    i \in {j \in DOMAIN attributes :
                             lower(attributes[j][1]) = "rel"}}]

ParsedLinks(links) == [links |-> links]

\* rel in parsedLinks
ParsedLinks_contains(parsedLinks, rel) ==
    \E i \in DOMAIN parsedLinks.links : rel \in parsedLinks.links[i].rel

\* parsedLinks[rel]: the first link, in header order, that carries rel
ParsedLinks_getitem(parsedLinks, rel) ==
    LET hits == {i \in DOMAIN parsedLinks.links :
                   rel \in parsedLinks.links[i].rel}
    IN  parsedLinks.links[CHOOSE i \in hits : \A j \in hits : i <= j]

ParseError == [ok |-> FALSE, links |-> <<>>]

NoParams == [ok |-> FALSE, attributes |-> <<>>, more |-> FALSE, rest |-> ""]

\* The attributes of one link-value, each written ; key="value".  more says
\* that a comma, and so another link-value, follows; rest is what follows it.
\* parse_params reads from s, parse_param the text u after a ";".
RECURSIVE parse_params(_, _)
parse_param(u, attributes) ==
    LET eq    == find(u, "=", 1)
        close == find(u, "\"", find(u, "=", 1) + 2)
    IN  IF eq <= 1 \/ Prefix(From(u, eq + 1), 1) # "\"" \/ close = 0
        THEN NoParams
        ELSE parse_params(From(u, close + 1),
                          Append(attributes, <<SubSeq(u, 1, eq - 1),
                                               SubSeq(u, eq + 2, close - 1)>>))

parse_params_stripped(t, attributes) ==
    IF t = ""
    THEN [ok |-> TRUE, attributes |-> attributes, more |-> FALSE, rest |-> ""]
    ELSE IF At(t, 1) = ","
    THEN [ok |-> TRUE, attributes |-> attributes, more |-> TRUE,
          rest |-> From(t, 2)]
    ELSE IF At(t, 1) = ";" THEN parse_param(lstrip(From(t, 2)), attributes)
    ELSE NoParams

parse_params(s, attributes) == parse_params_stripped(lstrip(s), attributes)

\* The link-values of a header value: <target> and its attributes, separated
\* by commas.  Text that is no link-value is a parse error.
RECURSIVE parse_link_values(_, _)
parse_link_value(target, p, links) ==
    IF ~p.ok THEN ParseError
    ELSE IF p.more
    THEN parse_link_values(p.rest, Append(links, Link(target, p.attributes)))
    ELSE [ok |-> TRUE, links |-> Append(links, Link(target, p.attributes))]

parse_link_values_stripped(t, links) ==
    LET gt == find(t, ">", 2)
    IN  IF Prefix(t, 1) # "<" \/ gt = 0 THEN ParseError
        ELSE parse_link_value(SubSeq(t, 2, gt - 1),
                              parse_params(From(t, gt + 1), <<>>), links)

parse_link_values(s, links) == parse_link_values_stripped(lstrip(s), links)

parse_link_header(header) == parse_link_values(header, <<>>)

(***************************************************************************)
(* signposting/linkheader.py.  A function that can raise returns           *)
(* [exc, val]: exc is "" on a normal return and names the exception        *)
(* otherwise, in which case there is no value.                             *)
(***************************************************************************)
SIGNPOSTING ==
    {"author", "collection", "describedby", "describes", "item", "cite-as",
     "type", "license", "linkset"}

Return(v) == [exc |-> "", val |-> v]
Raise(e) == [exc |-> e, val |-> <<>>]

\* filterRels with the names kept as given, not lower-cased
filterRels_NotLowered(rels) ==
    IF rels # <<>>
    THEN {rels[i] : i \in {j \in DOMAIN rels : lower(rels[j]) \in SIGNPOSTING}}
    ELSE SIGNPOSTING

\* filterRels without the fallback to all relations
filterRels_NoFallback(rels) ==
    {lower(rels[i]) : i \in {j \in DOMAIN rels : lower(rels[j]) \in SIGNPOSTING}}

\* the set filterRels that _filter_links_by_rel builds from *rels
filterRels(rels) ==
    IF rels # <<>>
    THEN {lower(rels[i]) :
            i \in {j \in DOMAIN rels : lower(rels[j]) \in SIGNPOSTING}}
    ELSE SIGNPOSTING

\* _filter_links_by_rel with l.rel | filterRels for l.rel & filterRels
_filter_links_by_rel_Union(parsedLinks, rels) ==
    IF filterRels(rels) \cap SIGNPOSTING = {}
    THEN Raise("ValueError")
    ELSE Return(SelectSeq(parsedLinks.links,
                          LAMBDA l : l.rel \cup filterRels(rels) # {}))

_filter_links_by_rel(parsedLinks, rels) ==
    IF filterRels(rels) \cap SIGNPOSTING = {}
    THEN Raise("ValueError")
    ELSE Return(SelectSeq(parsedLinks.links,
                          LAMBDA l : l.rel \cap filterRels(rels) # {}))

\* _optional_link giving the last link that carries rel
_optional_link_LastMatch(parsedLinks, rel) ==
    LET hits == {i \in DOMAIN parsedLinks.links :
                   rel \in parsedLinks.links[i].rel}
    IN  IF lower(rel) \notin SIGNPOSTING
        THEN Raise("ValueError")
        ELSE IF hits = {} THEN Return(None)
        ELSE Return(<<parsedLinks.links[CHOOSE i \in hits :
                                           \A j \in hits : i >= j]>>)

_optional_link(parsedLinks, rel) ==
    IF lower(rel) \notin SIGNPOSTING
    THEN Raise("ValueError")
    ELSE IF ParsedLinks_contains(parsedLinks, rel)
    THEN Return(<<ParsedLinks_getitem(parsedLinks, rel)>>)
    ELSE Return(None)

\* Signposting.__init__: eight calls in order; the first that raises ends it
Signposting(parsedLinks) ==
    LET author      == _filter_links_by_rel(parsedLinks, <<"author">>)
        describedBy == _filter_links_by_rel(parsedLinks, <<"describedby">>)
        type        == _filter_links_by_rel(parsedLinks, <<"type">>)
        item        == _filter_links_by_rel(parsedLinks, <<"item">>)
        linkset     == _filter_links_by_rel(parsedLinks, <<"linkset">>)
        citeAs      == _optional_link(parsedLinks, "cite-as")
        license     == _optional_link(parsedLinks, "license")
        collection  == _optional_link(parsedLinks, "collection")
        calls == <<author, describedBy, type, item, linkset, citeAs, license,
                   collection>>
    IN  IF \E i \in DOMAIN calls : calls[i].exc # ""
        THEN Raise("ValueError")
        ELSE Return([author |-> author.val, describedBy |-> describedBy.val,
                     type |-> type.val, item |-> item.val,
                     linkset |-> linkset.val, citeAs |-> citeAs.val,
                     license |-> license.val, collection |-> collection.val])

\* _absolute_attribute comparing the key as written, not lower-cased
_absolute_attribute_CaseSensitive(k, v, baseurl) ==
    IF k = "href" THEN <<k, urljoin(baseurl, v)>> ELSE <<k, v>>

_absolute_attribute(k, v, baseurl) ==
    IF lower(k) = "href" THEN <<k, urljoin(baseurl, v)>> ELSE <<k, v>>

\* the loop body with baseurl + l.target for urljoin(baseurl, l.target)
absolute_link_Concat(l, baseurl) ==
    IF baseurl # None
    THEN Link(baseurl[1] \o l.target,
              [i \in DOMAIN l.attributes |->
                 _absolute_attribute(l.attributes[i][1], l.attributes[i][2],
                                     baseurl[1])])
    ELSE l

\* the body of the loop of find_signposting for one link l
absolute_link(l, baseurl) ==
    IF baseurl # None
    THEN Link(urljoin(baseurl[1], l.target),
              [i \in DOMAIN l.attributes |->
                 _absolute_attribute(l.attributes[i][1], l.attributes[i][2],
                                    baseurl[1])])
    ELSE l

(***************************************************************************)
(* The inputs.  Header lines are written from link-values; one of them is  *)
(* no link-value at all (its "<" is missing).                              *)
(***************************************************************************)
MaxLinks == 2
MaxLines == 2
MaxRels == 2

GoodEntries ==
    {"<http://e/a>; rel=\"author\"",
     "<b>; rel=\"Item author\"",
     "<../c>; rel=\"cite-as license collection\"",
     "<HTTP://E/D>; rel=\"collection license cite-as\"",
     "<s>; rel=\"stylesheet\"",
     "<t>; rel=\"type\"; HREF=\"u\"; title=\"v\"",
     "<doi:1>; rel=\"describedby linkset describes\""}

BadEntries == {"x>; rel=\"item\""}

Entries == GoodEntries \cup BadEntries

BaseUrls == {None, <<"http://e/d/x">>, <<"d/x">>}

\* the relation names given to the filter and to the lookup
RelNames == {"author", "Item", "CITE-AS", "stylesheet", "Describes"}

AllNine ==
    <<"author", "collection", "describedby", "describes", "item", "cite-as",
      "type", "license", "linkset">>

SeqsUpTo(S, n) == UNION {[1..k -> S] : k \in 0..n}

\* the header lines of the entries es, cut after the positions in cuts
HeaderLines(es, cuts) ==
    LET starts == {1} \cup {c + 1 : c \in cuts}
        stop(a) == LET later == {c \in cuts : c >= a}
                   IN  IF later = {} THEN Len(es)
                       ELSE CHOOSE c \in later : \A d \in later : c <= d
        nth(k) == CHOOSE a \in starts :
                     Cardinality({b \in starts : b < a}) = k - 1
    IN  [k \in 1..Cardinality(starts) |->
           join(", ", SubSeq(es, nth(k), stop(nth(k))))]

Headers ==
    UNION {{HeaderLines(es, cuts) :
              cuts \in {c \in SUBSET (1..(Len(es) - 1)) :
                          Cardinality(c) < MaxLines}} :
           es \in SeqsUpTo(Entries, MaxLinks) \ {<<>>}}

LinkUniverse == {parse_link_header(e).links[1] : e \in GoodEntries}

RelTuples ==
    SeqsUpTo(RelNames, MaxRels)
    \cup {AllNine, [i \in DOMAIN AllNine |-> IF i = 1 THEN "AUTHOR" ELSE AllNine[i]]}

(***************************************************************************)
(* One call per behaviour: op names the function called, the next          *)
(* variables are its arguments, pc is the place in it, and the rest is     *)
(* what it has built and what it gives back.                               *)
(***************************************************************************)
VARIABLES op, headers, baseurl, parsedLinks, rels, rel,
          pc, parsed, todo, signposting, ret, exc

vars == <<op, headers, baseurl, parsedLinks, rels, rel,
          pc, parsed, todo, signposting, ret, exc>>

args == <<op, headers, baseurl, parsedLinks, rels, rel>>

NoReturn == [links |-> <<>>, link |-> None, signposting |-> None]

Init ==
    /\ pc = "call"
    /\ parsed = ParsedLinks(<<>>)
    /\ todo = <<>>
    /\ signposting = <<>>
    /\ ret = NoReturn
    /\ exc = ""
    /\ \/ /\ op = "find_signposting"
          /\ headers \in Headers
          /\ baseurl \in BaseUrls
          /\ parsedLinks = ParsedLinks(<<>>)
          /\ rels = <<>>
          /\ rel = ""
       \/ /\ op = "_filter_links_by_rel"
          /\ parsedLinks \in {ParsedLinks(ls) : ls \in SeqsUpTo(LinkUniverse, MaxLinks)}
          /\ rels \in RelTuples
          /\ headers = <<>>
          /\ baseurl = None
          /\ rel = ""
       \/ /\ op = "_optional_link"
          /\ parsedLinks \in {ParsedLinks(ls) : ls \in SeqsUpTo(LinkUniverse, MaxLinks)}
          /\ rel \in RelNames \cup SIGNPOSTING
          /\ headers = <<>>
          /\ baseurl = None
          /\ rels = <<>>

\* a call of _filter_links_by_rel(parsedLinks, *rels)
call_filter_links_by_rel ==
    /\ op = "_filter_links_by_rel"
    /\ pc = "call"
    /\ LET r == _filter_links_by_rel(parsedLinks, rels)
       IN  /\ exc' = r.exc
           /\ ret' = [ret EXCEPT !.links = r.val]
           /\ pc' = IF r.exc = "" THEN "return" ELSE "raise"
    /\ UNCHANGED <<args, parsed, todo, signposting>>

\* a call of _optional_link(parsedLinks, rel)
call_optional_link ==
    /\ op = "_optional_link"
    /\ pc = "call"
    /\ LET r == _optional_link(parsedLinks, rel)
       IN  /\ exc' = r.exc
           /\ ret' = [ret EXCEPT !.link = r.val]
           /\ pc' = IF r.exc = "" THEN "return" ELSE "raise"
    /\ UNCHANGED <<args, parsed, todo, signposting>>

\* find_signposting_parse going on with no links when the parser fails
find_signposting_parse_Salvage ==
    /\ op = "find_signposting"
    /\ pc = "call"
    /\ LET p == parse_link_header(join(", ", headers))
           f == _filter_links_by_rel(ParsedLinks(p.links), <<>>)
       IN  /\ parsed' = ParsedLinks(p.links)
           /\ todo' = f.val
           /\ pc' = "loop"
           /\ UNCHANGED exc
    /\ UNCHANGED <<args, signposting, ret>>

\* find_signposting up to its loop: the header lines are joined and parsed,
\* and the loop is to run over the Signposting links of the result
find_signposting_parse ==
    /\ op = "find_signposting"
    /\ pc = "call"
    /\ LET p == parse_link_header(join(", ", headers))
           f == _filter_links_by_rel(ParsedLinks(p.links), <<>>)
       IN  IF ~p.ok
           THEN /\ exc' = "MalformedHeader"
                /\ pc' = "raise"
                /\ UNCHANGED <<parsed, todo>>
           ELSE IF f.exc # ""
           THEN /\ exc' = f.exc
                /\ pc' = "raise"
                /\ parsed' = ParsedLinks(p.links)
                /\ UNCHANGED todo
           ELSE /\ parsed' = ParsedLinks(p.links)
                /\ todo' = f.val
                /\ pc' = "loop"
                /\ UNCHANGED exc
    /\ UNCHANGED <<args, signposting, ret>>

\* the loop with signposting.insert(0, link) for signposting.append(link)
find_signposting_loop_Prepend ==
    /\ op = "find_signposting"
    /\ pc = "loop"
    /\ todo # <<>>
    /\ signposting' = <<absolute_link(Head(todo), baseurl)>> \o signposting
    /\ todo' = Tail(todo)
    /\ UNCHANGED <<args, pc, parsed, ret, exc>>

\* the loop writing the absolute URLs into the parsed Link itself
find_signposting_loop_InPlace ==
    /\ op = "find_signposting"
    /\ pc = "loop"
    /\ todo # <<>>
    /\ LET link == absolute_link(Head(todo), baseurl)
       IN  /\ signposting' = Append(signposting, link)
           /\ parsed' = ParsedLinks([i \in DOMAIN parsed.links |->
                                       IF parsed.links[i] = Head(todo)
                                       THEN link ELSE parsed.links[i]])
    /\ todo' = Tail(todo)
    /\ UNCHANGED <<args, pc, ret, exc>>

\* one turn of the loop of find_signposting
find_signposting_loop ==
    /\ op = "find_signposting"
    /\ pc = "loop"
    /\ todo # <<>>
    /\ signposting' = Append(signposting, absolute_link(Head(todo), baseurl))
    /\ todo' = Tail(todo)
    /\ UNCHANGED <<args, pc, parsed, ret, exc>>

\* the loop is over: Signposting(ParsedLinks(signposting)) is returned
find_signposting_return ==
    /\ op = "find_signposting"
    /\ pc = "loop"
    /\ todo = <<>>
    /\ LET r == Signposting(ParsedLinks(signposting))
       IN  /\ exc' = r.exc
           /\ ret' = [ret EXCEPT !.signposting =
                                    IF r.exc = "" THEN <<r.val>> ELSE None]
           /\ pc' = IF r.exc = "" THEN "return" ELSE "raise"
    /\ UNCHANGED <<args, parsed, todo, signposting>>

Next ==
    \/ call_filter_links_by_rel
    \/ call_optional_link
    \/ find_signposting_parse
    \/ find_signposting_loop
    \/ find_signposting_return

Spec == Init /\ [][Next]_vars

(***************************************************************************)
(* What the properties speak of.  The links of the header are read line by *)
(* line here, each line parsed on its own, not from the joined value.      *)
(***************************************************************************)
RECURSIVE LinesLinks(_)
LinesLinks(hs) ==
    IF hs = <<>> THEN <<>>
    ELSE parse_link_header(Head(hs)).links \o LinesLinks(Tail(hs))

WellFormed(hs) == \A i \in DOMAIN hs : parse_link_header(hs[i]).ok

HeaderLinks == LinesLinks(headers)

IsSignposting(l) == l.rel \cap SIGNPOSTING # {}

Retained == SelectSeq(HeaderLinks, IsSignposting)

\* the k-th smallest member of a set of numbers
Kth(S, k) == CHOOSE i \in S : Cardinality({j \in S : j < i}) = k - 1

Called(f) == op = f /\ pc # "call"
Returned(f) == op = f /\ pc = "return"
Raised(e) == pc = "raise" /\ exc = e /\ ret = NoReturn

Result == ret.signposting[1]

\* field of the result, relation it holds
ListFields ==
    {<<"author", "author">>, <<"describedBy", "describedby">>,
     <<"type", "type">>, <<"item", "item">>, <<"linkset", "linkset">>}

SingletonFields ==
    {<<"citeAs", "cite-as">>, <<"license", "license">>,
     <<"collection", "collection">>}

Fields == {fr[1] : fr \in ListFields \cup SingletonFields}

\* the links, in order, the loop makes of the links ls
Absolutized(ls) == [i \in DOMAIN ls |-> absolute_link(ls[i], baseurl)]

\* t is written with a scheme
IsAbsolute(t) == urlsplit(t, "").scheme # ""

\* t as urlunparse writes what urlparse reads in it
Reserialised(t) ==
    LET u == urlparse(t, "")
    IN  urlunparse(u.scheme, u.netloc, u.path, u.params, u.query, u.fragment)

\* b has a scheme and an authority and is written as urlunparse writes it
IsAbsoluteBase(b) ==
    /\ urlparse(b, "").scheme # ""
    /\ urlparse(b, "").netloc # ""
    /\ Reserialised(b) = b

(***************************************************************************)
(* C1.  Given one or more of the nine relation names, in any letter case,  *)
(* _filter_links_by_rel returns exactly the links whose rel holds one of   *)
(* the lower-cased names: none without, all with, in the order of the      *)
(* input and each once.                                                    *)
(***************************************************************************)
C1_FilterReturnsExactlyTheMatches ==
    (/\ Called("_filter_links_by_rel")
     /\ rels # <<>>
     /\ \A i \in DOMAIN rels : lower(rels[i]) \in SIGNPOSTING)
    => LET links  == parsedLinks.links
           wanted == {lower(rels[i]) : i \in DOMAIN rels}
           M      == {i \in DOMAIN links : links[i].rel \cap wanted # {}}
       IN  /\ pc = "return"
           /\ Len(ret.links) = Cardinality(M)
           /\ \A k \in 1..Len(ret.links) : ret.links[k] = links[Kth(M, k)]

C1_Witness ==
    /\ Returned("_filter_links_by_rel")
    /\ \A i \in DOMAIN rels : lower(rels[i]) \in SIGNPOSTING
    /\ \E i \in DOMAIN rels : lower(rels[i]) # rels[i]
    /\ Len(parsedLinks.links) = 2
    /\ Len(ret.links) = 2
    /\ ret.links[1] # ret.links[2]

C3_NoNamesMeansAllNine ==
    (Called("_filter_links_by_rel") /\ rels = <<>>)
    => /\ pc = "return"
       /\ ret.links = _filter_links_by_rel(parsedLinks, AllNine).val

C3_Witness ==
    /\ Returned("_filter_links_by_rel")
    /\ rels = <<>>
    /\ Len(ret.links) = 1
    /\ Len(parsedLinks.links) = 2

(***************************************************************************)
(* C4.  For well-formed header lines find_signposting returns, and each of *)
(* author, describedBy, type, item and linkset holds exactly the links of  *)
(* the header with that relation, in header order: line after line, and    *)
(* within a line in its order.  No such link gives the empty list.         *)
(***************************************************************************)
C4_ListFieldsInHeaderOrder ==
    (Called("find_signposting") /\ WellFormed(headers))
    => /\ pc # "raise"
       /\ pc = "return" =>
            \A fr \in ListFields :
               Result[fr[1]] =
                  SelectSeq(Absolutized(HeaderLinks), LAMBDA l : fr[2] \in l.rel)

C4_Witness ==
    /\ Returned("find_signposting")
    /\ Len(headers) = 2
    /\ Len(Result.author) = 2
    /\ Result.author[1] # Result.author[2]
    /\ Result.item # <<>>
    /\ Result.linkset = <<>>

(***************************************************************************)
(* C5.  Each of citeAs, license and collection is absent exactly when no   *)
(* retained link has that relation, and otherwise is the first retained    *)
(* link, in header order, that has it.                                     *)
(***************************************************************************)
C5_SingletonFieldsFirstMatch ==
    Returned("find_signposting") =>
       \A fr \in SingletonFields :
          LET M == {i \in DOMAIN Retained : fr[2] \in Retained[i].rel}
          IN  /\ Result[fr[1]] = None <=> M = {}
              /\ M # {} =>
                   Result[fr[1]] = <<absolute_link(Retained[Kth(M, 1)], baseurl)>>

C5_Witness ==
    /\ Returned("find_signposting")
    /\ Len(Retained) = 2
    /\ Retained[1] # Retained[2]
    /\ "license" \in Retained[1].rel \cap Retained[2].rel
    /\ Result.license # None
    /\ Result.citeAs # None

(***************************************************************************)
(* C6.  A link of the header with no vocabulary name in its rel, such as   *)
(* rel=stylesheet, is in none of the eight fields of the result, and every *)
(* link in a field has a vocabulary name in its rel.                       *)
(***************************************************************************)
C6_OnlySignpostingLinksInFields ==
    Returned("find_signposting") =>
       \A f \in Fields :
          /\ \A l \in Range(Result[f]) : IsSignposting(l)
          /\ \A i \in DOMAIN HeaderLinks :
                ~IsSignposting(HeaderLinks[i]) =>
                   /\ HeaderLinks[i] \notin Range(Result[f])
                   /\ absolute_link(HeaderLinks[i], baseurl)
                         \notin Range(Result[f])

C6_Witness ==
    /\ Returned("find_signposting")
    /\ Len(HeaderLinks) = 2
    /\ ~IsSignposting(HeaderLinks[1])
    /\ Len(signposting) = 1
    /\ \E f \in Fields : Result[f] # <<>>

(***************************************************************************)
(* C7.  With a base URL, every link in every field has the original target *)
(* resolved against the base as its target, and every attribute whose key  *)
(* is href in any letter case has the original value resolved against the  *)
(* base.  The amended closing clause: an absolute target or href value     *)
(* whose scheme is not the base's is returned unchanged, and one with the  *)
(* base's scheme and an authority is returned as urlunparse writes it      *)
(* (scheme in lower case), so unchanged only when it was written so.       *)
(***************************************************************************)
\* every link in a field is one the loop built, and the loop built one for
\* each retained link
FieldsHoldTheLoopsLinks ==
    /\ Len(signposting) = Len(Retained)
    /\ \A f \in Fields : Range(Result[f]) \subseteq Range(signposting)

\* the k-th link is the k-th retained link resolved against base b
ResolvedAgainst(b, k) ==
    LET o == Retained[k]
        n == signposting[k]
    IN  /\ n.target = urljoin(b, o.target)
        /\ Len(n.attributes) = Len(o.attributes)
        /\ \A j \in DOMAIN o.attributes :
              lower(o.attributes[j][1]) = "href" =>
                 /\ lower(n.attributes[j][1]) = "href"
                 /\ n.attributes[j][2] = urljoin(b, o.attributes[j][2])

\* the URLs before and after the loop: targets and href values
UrlPairs(k) ==
    {<<Retained[k].target, signposting[k].target>>}
    \cup {<<Retained[k].attributes[j][2], signposting[k].attributes[j][2]>> :
            j \in {i \in DOMAIN Retained[k].attributes :
                     lower(Retained[k].attributes[i][1]) = "href"}}

\* what holds of an absolute URL old that the loop made new with base b
AbsoluteAsUrlunparseWritesIt(b, old, new) ==
    LET u  == urlparse(old, "")
        bs == urlparse(b, "").scheme
    IN  /\ u.scheme # bs => new = old
        /\ (u.scheme = bs /\ u.scheme \in uses_relative /\ u.netloc # "")
              => new = Reserialised(old)

C8_MalformedHeaderRaises ==
    (Called("find_signposting") /\ ~WellFormed(headers))
    => /\ Raised("MalformedHeader")
       /\ signposting = <<>>

C8_Witness ==
    /\ op = "find_signposting"
    /\ Raised("MalformedHeader")
    /\ Len(headers) = 2
    /\ \E i \in DOMAIN headers : parse_link_header(headers[i]).ok

(***************************************************************************)
(* C9.  Absolutizing the links of the result once more with the same base  *)
(* URL changes nothing, in any field; as amended: when the base URL has a  *)
(* scheme and an authority and is written as urlunparse writes it.         *)
(***************************************************************************)
SecondPassChangesNothing ==
    /\ \A k \in DOMAIN signposting :
          absolute_link(signposting[k], baseurl).target = signposting[k].target
    /\ Signposting(ParsedLinks(Absolutized(signposting))) = Return(Result)

\* C9, as amended: a second pass with the same absolute base changes nothing
C9_IdempotentForAbsoluteBase ==
    (/\ Returned("find_signposting")
     /\ baseurl # None
     /\ IsAbsoluteBase(baseurl[1]))
    => SecondPassChangesNothing

\* C9 as first stated: for every base URL
C9_IdempotentForEveryBase ==
    (Returned("find_signposting") /\ baseurl # None)
    => SecondPassChangesNothing

C9_Witness ==
    /\ Returned("find_signposting")
    /\ baseurl # None
    /\ IsAbsoluteBase(baseurl[1])
    /\ \E k \in DOMAIN signposting :
          /\ signposting[k].target # Retained[k].target
          /\ ~IsAbsolute(Retained[k].target)
    /\ \E f \in Fields : Result[f] # <<>>

====
